---- MODULE Spec2Model ----
(***************************************************************************)
(* pyConnectionMonitor (main.py): the interval store kept by               *)
(* MainWindow._refresh (append, merge, prune, save), the redraw            *)
(* MainWindow._safe_refresh, the Stop/Resume toggle, the check loop, the  *)
(* settings-save loop and closeEvent.  Times are whole seconds; a status   *)
(* is 1 (online) or 0.                                                     *)
(***************************************************************************)
EXTENDS Integers, Sequences, FiniteSets, TLC

VARIABLES
    clock,            \* the last value datetime.now() returned
    disk,             \* contents of "<server>.pkl"
    loaded,           \* what load() returned in __init__ (history variable)
    check_data,       \* self.check_data
    merged,           \* the local `merged' of the last _refresh
    cutoff,           \* the local `cutoff' of the last _refresh
    data,             \* self.data (meaningful only when has_data)
    has_data,         \* whether the attribute self.data exists
    head_shared,      \* self.data[0] is the very dict self.check_data[0]
    current_online,   \* self.current_online
    appended,         \* number of probe cycles so far (bounds the model)
    restarts,         \* number of restarts so far (bounds the model)
    spans,            \* the axvspan calls of the last redraw, in order
    oldest,           \* left x limit of the last redraw
    drawn_now,        \* right x limit of the last redraw
    ui_pc,            \* position of the UI thread in _safe_refresh ("idle": outside)
    draw_idx,         \* position of the drawing loop in self.data
    stop_event,       \* self._stop_event
    exit_event,       \* self._exit_event
    pause_indicator,  \* colour of self.pause_indicator
    lock,             \* holder of self.check_data_lock
    pc,               \* position of the check_worker thread
    online,           \* the local `online' of the running _refresh
    idx,              \* position of the merge loop in check_data
    wait_left,        \* iterations left in the sleep loop of _run_check_loop
    pending,          \* update_plot_signal emissions not yet delivered
    ui,               \* the window: "open", "joining" (closeEvent waits in join),
                      \* "closed" (closeEvent accepted), "raised" (closeEvent raised)
    settings_pc,      \* position of the settings_worker thread
    settings_left,    \* iterations left in the sleep loop of _save_settings_loop
    settings_disk     \* "settings.json": "absent", or "saved" by this process

storeVars == <<clock, disk, loaded, check_data, merged, cutoff, data, has_data, head_shared,
               current_online, appended, restarts>>
viewVars == <<spans, oldest, drawn_now, ui_pc, draw_idx>>
threadVars == <<stop_event, exit_event, pause_indicator, lock, pc, online, idx,
                wait_left, pending, ui>>
settingsVars == <<settings_pc, settings_left, settings_disk>>
vars == <<storeVars, viewVars, threadVars, settingsVars>>

----------------------------------------------------------------------------
(* Program constants *)

MAX_GAP == 35
max_history == 7 * 86400
buffer_window == 300
MIN_SIGNIFICANT_DURATION == 300
SETTINGS_SAVE_CYCLE_TIME_s == 120

\* history_combo items ("<value> <unit>") and the unit table of lines 286/331
HistoryItems == { <<1, "m">>, <<5, "m">>, <<15, "m">>, <<30, "m">>, <<1, "h">>,
                  <<3, "h">>, <<6, "h">>, <<12, "h">>, <<1, "d">>, <<3, "d">>,
                  <<7, "d">> }
unit_seconds == [u \in {"m", "h", "d"} |->
                    IF u = "m" THEN 60 ELSE IF u = "h" THEN 3600 ELSE 86400]
HistorySeconds(history_text) == history_text[1] * unit_seconds[history_text[2]]

----------------------------------------------------------------------------
(* Bounds of the model *)

MaxSamples == 3          \* probe cycles in SpecStore
MaxRestarts == 1         \* restarts in SpecStore
MaxViewSamples == 2      \* probe cycles in SpecView
MaxCycles == 2           \* probe cycles in Spec
LoopSteps == {30, 40}    \* seconds between two clock reads of the worker in Spec
CycleChoices == {1, 5}   \* cycle_combo items the user selects in Spec
Steps == {0, 30, 35, 40, 605100}   \* seconds between two clock reads of the worker
PruneDelays == {0, 1}    \* seconds between the reads of lines 279 and 310
RedrawDelays == {0}        \* seconds between the emit and the read of line 325
MaxSkewSamples == 3      \* probe cycles in SpecSkew
SkewSteps == {-3600, -20, 0, 30}   \* seconds between two clock reads in SpecSkew
MaxExitCycles == 1       \* probe cycles before closeEvent in SpecExit
MaxSettingsTicks == 2    \* iterations of the settings sleep loop in SpecExit
ExitSteps == {30}        \* seconds between two clock reads of the worker in SpecExit
ExitDelays == {0}        \* seconds between the reads of lines 279 and 310 in SpecExit
MaxSaveSamples == 3      \* probe cycles in SpecSave
SaveSteps == {0, 30, 40} \* seconds between two clock reads of the worker in SpecSave
ViewHistory == { <<1, "m">>, <<1, "h">>, <<7, "d">> }

----------------------------------------------------------------------------
(* The interval store: lines 280-315 *)

Last(s) == s[Len(s)]

\* line 280: the dict appended for one probe
Sample(now, on) == [start |-> now, end |-> now, status |-> IF on THEN 1 ELSE 0]

\* Variants of the merge loop body with one slip each (used to test the claims)
MergeStepWrongKey(m, seg) ==      \* the extension writes 'start' instead of 'end'
    LET last == m[Len(m)]
        gap == seg.start - last.end
    IN  IF seg.status = last.status /\ gap <= MAX_GAP
        THEN [m EXCEPT ![Len(m)].start = seg.end]
        ELSE Append(m, [start |-> seg.start, end |-> seg.end, status |-> seg.status])
MergeStepStrictGap(m, seg) ==     \* gap < MAX_GAP
    LET last == m[Len(m)]
        gap == seg.start - last.end
    IN  IF seg.status = last.status /\ gap < MAX_GAP
        THEN [m EXCEPT ![Len(m)].end = seg.end]
        ELSE Append(m, [start |-> seg.start, end |-> seg.end, status |-> seg.status])
MergeStepIgnoreStatus(m, seg) ==  \* the status is not compared
    LET last == m[Len(m)]
        gap == seg.start - last.end
    IN  IF gap <= MAX_GAP
        THEN [m EXCEPT ![Len(m)].end = seg.end]
        ELSE Append(m, [start |-> seg.start, end |-> seg.end, status |-> seg.status])
MergeStepPointSegment(m, seg) ==  \* a new segment ends at seg['start']
    LET last == m[Len(m)]
        gap == seg.start - last.end
    IN  IF seg.status = last.status /\ gap <= MAX_GAP
        THEN [m EXCEPT ![Len(m)].end = seg.end]
        ELSE Append(m, [start |-> seg.start, end |-> seg.start, status |-> seg.status])

\* lines 296-305: one iteration of the merge loop
MergeStep(m, seg) ==
    LET last == m[Len(m)]
        gap == seg.start - last.end
    IN  IF seg.status = last.status /\ gap <= MAX_GAP
        THEN [m EXCEPT ![Len(m)].end = seg.end]
        ELSE Append(m, [start |-> seg.start, end |-> seg.end, status |-> seg.status])

\* lines 295-305: the loop over the remaining entries, in order
RECURSIVE MergeFrom(_, _)
MergeFrom(m, segs) ==
    IF segs = <<>> THEN m
    ELSE MergeFrom(MergeStep(m, Head(segs)), Tail(segs))

\* lines 293-305: merged = [check_data[0]], then the loop over check_data[1:]
MergeAll(cd) == MergeFrom(<<cd[1]>>, Tail(cd))

\* merged[0] IS the dict check_data[0]: what the loop writes to merged[0]['end']
\* is written to check_data[0] as well; the later entries of merged are new dicts
Aliased(cd, m) == [cd EXCEPT ![1] = m[1]]

\* line 310
Cutoff(now) == now - (max_history + buffer_window)

\* Variants of the prune condition with one slip each (used to test the claims)
KeepInclusive(entry, cut) ==      \* end >= cutoff
    entry.end >= cut \/ (entry.end - entry.start) > MIN_SIGNIFICANT_DURATION
KeepRecentOnly(entry, cut) ==     \* the duration is not looked at
    entry.end > cut

\* lines 314-315: the condition of the list comprehension
Keep(entry, cut) ==
    entry.end > cut \/ (entry.end - entry.start) > MIN_SIGNIFICANT_DURATION

\* lines 313-315
Prune(m, cut) == LET Test(entry) == Keep(entry, cut) IN SelectSeq(m, Test)

\* lines 277-317 as a whole: the store after one _refresh that read `now' at
\* line 279 and `now2' at line 310
RefreshResult(cd, on, now, now2) ==
    LET cd1 == Append(cd, Sample(now, on))
        m == MergeAll(cd1)
    IN  [check_data |-> Aliased(cd1, m), merged |-> m,
         cutoff |-> Cutoff(now2), data |-> Prune(m, Cutoff(now2))]

----------------------------------------------------------------------------
(* The file: lines 41-56.  `disk' stands for what load() returns for the file:
   the saved list, or [] when the file is missing or does not unpickle. *)

\* what can happen to the file in save(): the dump is written; open() raises
\* and the file stays as it was; or open(.., 'wb') has emptied the file and the
\* dump raises, which leaves a file that load() cannot unpickle
WriteOutcomes == {"written", "untouched", "truncated"}

\* lines 41-47; the exception is caught and logged inside save
Save(file, d, outcome) ==
    IF outcome = "written" THEN d
    ELSE IF outcome = "untouched" THEN file
    ELSE <<>>

----------------------------------------------------------------------------
(* The redraw: lines 340-348 *)

Max(a, b) == IF a >= b THEN a ELSE b

\* Variant of the axvspan call without the clipping (used to test the claims)
SpanUnclipped(entry, old) == [start |-> entry.start, end |-> entry.end,
                              status |-> entry.status]

\* line 347: one axvspan call
Span(entry, old) == [start |-> Max(entry.start, old), end |-> entry.end,
                     status |-> entry.status]

\* Variant of the drawing loop that also skips an entry ending exactly at
\* `oldest' (used to test the claims)
RECURSIVE DrawSpansSkipBoundary(_, _)
DrawSpansSkipBoundary(d, old) ==
    IF d = <<>> THEN <<>>
    ELSE IF Head(d).end <= old THEN DrawSpansSkipBoundary(Tail(d), old)
    ELSE <<Span(Head(d), old)>> \o DrawSpansSkipBoundary(Tail(d), old)

\* lines 341-348: the drawing loop over self.data
RECURSIVE DrawSpans(_, _)
DrawSpans(d, old) ==
    IF d = <<>> THEN <<>>
    ELSE IF Head(d).end < old THEN DrawSpans(Tail(d), old)
    ELSE <<Span(Head(d), old)>> \o DrawSpans(Tail(d), old)

----------------------------------------------------------------------------
(* The file the program finds at start: lines 49-56.  Either there is none
   (or it does not parse), or it is the list an earlier run saved. *)

Entry(s, e, st) == [start |-> s, end |-> e, status |-> st]

\* what earlier runs saved that probed every 35 s or less and found the
\* connection online from 0 to 400, offline once at 405, online from 410 to
\* 810, offline from 830 to 1130 and online from 1150 to 1160
SavedFile == << Entry(0, 400, 1), Entry(405, 405, 0), Entry(410, 810, 1),
                Entry(830, 1130, 0), Entry(1150, 1160, 1) >>

Files == { <<>>, SavedFile }

EndOf(file) == IF file = <<>> THEN 0 ELSE Last(file).end

----------------------------------------------------------------------------
(* Construction: lines 109-138, 197-205 *)

InitStore(file) ==
    /\ disk = file
    /\ loaded = file
    /\ check_data = file
    /\ clock = EndOf(file)
    /\ merged = <<>>
    /\ cutoff = 0
    /\ data = <<>>
    /\ has_data = FALSE
    /\ head_shared = FALSE
    /\ current_online = FALSE
    /\ appended = 0
    /\ restarts = 0

InitView ==
    /\ spans = loaded          \* _plot_initial draws every loaded entry
    /\ oldest = 0
    /\ drawn_now = 0
    /\ ui_pc = "idle"
    /\ draw_idx = 0

InitThreads ==
    /\ stop_event = FALSE
    /\ exit_event = FALSE
    /\ pause_indicator = "green"
    /\ lock = "free"
    /\ pc = "start"
    /\ online = FALSE
    /\ idx = 0
    /\ wait_left = 0
    /\ pending = 0
    /\ ui = "open"

InitSettings ==
    /\ settings_pc = "start"
    /\ settings_left = 0
    /\ settings_disk = "absent"

Init == \E file \in Files :
            InitStore(file) /\ InitView /\ InitThreads /\ InitSettings

----------------------------------------------------------------------------
(* The probe cycles in sequence, each _refresh taken as a whole (it runs
   under check_data_lock from line 277 to line 317) *)

CycleWith(max, steps, writes) ==
    /\ appended < max
    /\ \E on \in BOOLEAN, d \in steps, d2 \in PruneDelays, w \in writes :
         LET now == clock + d
             now2 == now + d2
             r == RefreshResult(check_data, on, now, now2)
         IN  /\ clock' = now2
             /\ check_data' = r.check_data
             /\ merged' = r.merged
             /\ cutoff' = r.cutoff
             /\ data' = r.data
             /\ has_data' = TRUE
             /\ head_shared' = Keep(r.merged[1], r.cutoff)
             /\ disk' = Save(disk, r.data, w)
             /\ current_online' = on
             /\ appended' = appended + 1
             /\ pending' = pending + 1
    /\ UNCHANGED <<settingsVars, loaded, restarts, viewVars, stop_event, exit_event, pause_indicator,
                   lock, pc, online, idx, wait_left, ui>>

\* a cycle whose save succeeds
CycleAt(max, steps) == CycleWith(max, steps, {"written"})

\* a cycle whose clock read of line 279 is not earlier than the last read
Cycle(max) == CycleAt(max, Steps)

\* the process ends after a completed cycle and the program is started again:
\* __init__ loads the file (line 118)
Restart ==
    /\ has_data
    /\ restarts < MaxRestarts
    /\ restarts' = restarts + 1
    /\ loaded' = disk
    /\ check_data' = disk
    /\ merged' = <<>>
    /\ cutoff' = 0
    /\ data' = <<>>
    /\ has_data' = FALSE
    /\ head_shared' = FALSE
    /\ current_online' = FALSE
    /\ spans' = disk
    /\ oldest' = 0
    /\ drawn_now' = 0
    /\ pending' = 0
    /\ UNCHANGED <<settingsVars, clock, disk, appended, ui_pc, draw_idx, stop_event, exit_event, pause_indicator,
                   lock, pc, online, idx, wait_left, ui>>

\* _safe_refresh, lines 322-355, run by the UI thread for one delivered
\* update_plot_signal; it takes check_data_lock for the drawing loop
SafeRefresh ==
    /\ ui = "open"
    /\ pending > 0
    /\ lock = "free"
    /\ \E history_text \in ViewHistory, d \in RedrawDelays :
         LET now == clock + d
             old == now - HistorySeconds(history_text)
         IN  /\ clock' = now
             /\ oldest' = old
             /\ drawn_now' = now
             /\ spans' = DrawSpans(data, old)
    /\ pending' = pending - 1
    /\ pause_indicator' = "green"
    /\ UNCHANGED <<settingsVars, disk, loaded, check_data, merged, cutoff, data, has_data,
                   head_shared, current_online, appended, restarts, stop_event,
                   exit_event, lock, pc, online, idx, wait_left, ui, ui_pc, draw_idx>>

\* SpecStore: probe cycles and restarts
StoreRefresh == Cycle(MaxSamples)
NextStore == StoreRefresh \/ Restart
SpecStore == Init /\ [][NextStore]_vars

\* SpecSkew: probe cycles under a wall clock that is also set back between two
\* reads (datetime.now() is the naive local time: clock corrections, the end of
\* daylight saving time)
SkewRefresh == CycleAt(MaxSkewSamples, SkewSteps)
NextSkew == SkewRefresh
SpecSkew == Init /\ [][NextSkew]_vars

\* SpecSave: probe cycles whose save can fail
SaveRefresh == CycleWith(MaxSaveSamples, SaveSteps, WriteOutcomes)
NextSave == SaveRefresh
SpecSave == Init /\ [][NextSave]_vars

\* SpecView: probe cycles and redraws
ViewRefresh == Cycle(MaxViewSamples)
NextView == ViewRefresh \/ SafeRefresh
SpecView == Init /\ [][NextView]_vars

----------------------------------------------------------------------------
(* SpecDraw: _safe_refresh step by step (the UI thread), with the probe cycles
   of the worker taken as a whole whenever check_data_lock is free *)

\* lines 325-338: the clock read, oldest, ax.clear()
SafeRefreshBegin ==
    /\ ui = "open"
    /\ ui_pc = "idle"
    /\ pending > 0
    /\ \E history_text \in ViewHistory, d \in RedrawDelays :
         LET now == clock + d
         IN  /\ clock' = now
             /\ oldest' = now - HistorySeconds(history_text)
             /\ drawn_now' = now
    /\ spans' = <<>>
    /\ pending' = pending - 1
    /\ ui_pc' = "enter"
    /\ UNCHANGED <<settingsVars, disk, loaded, check_data, merged, cutoff, data, has_data,
                   head_shared, current_online, appended, restarts, draw_idx,
                   stop_event, exit_event, pause_indicator, lock, pc, online, idx,
                   wait_left, ui>>

\* line 340: with self.check_data_lock
SafeRefreshLock ==
    /\ ui_pc = "enter"
    /\ lock = "free"
    /\ lock' = "ui"
    /\ draw_idx' = 1
    /\ ui_pc' = "draw"
    /\ UNCHANGED <<settingsVars, storeVars, spans, oldest, drawn_now, stop_event, exit_event,
                   pause_indicator, pc, online, idx, wait_left, pending, ui>>

\* lines 341-348: one iteration of the loop over self.data, inside the with block
DrawEntry ==
    /\ ui_pc = "draw"
    /\ draw_idx <= Len(data)
    /\ spans' = IF data[draw_idx].end < oldest THEN spans
                ELSE Append(spans, Span(data[draw_idx], oldest))
    /\ draw_idx' = draw_idx + 1
    /\ UNCHANGED <<settingsVars, storeVars, oldest, drawn_now, ui_pc, threadVars>>

\* the end of the with block: the lock is released
SafeRefreshUnlock ==
    /\ ui_pc = "draw"
    /\ draw_idx > Len(data)
    /\ lock' = "free"
    /\ ui_pc' = "render"
    /\ UNCHANGED <<settingsVars, storeVars, spans, oldest, drawn_now, draw_idx, stop_event,
                   exit_event, pause_indicator, pc, online, idx, wait_left, pending,
                   ui>>

\* lines 350-355: set_xlim, canvas.draw(), the status label, _set_running()
SafeRefreshRender ==
    /\ ui_pc = "render"
    /\ pause_indicator' = "green"
    /\ ui_pc' = "idle"
    /\ UNCHANGED <<settingsVars, storeVars, spans, oldest, drawn_now, draw_idx, stop_event,
                   exit_event, lock, pc, online, idx, wait_left, pending, ui>>

\* _refresh blocks at line 277 while the UI thread holds the lock
DrawRefresh == lock = "free" /\ Cycle(MaxViewSamples)

NextDraw ==
    \/ DrawRefresh \/ SafeRefreshBegin \/ SafeRefreshLock \/ DrawEntry
    \/ SafeRefreshUnlock \/ SafeRefreshRender
SpecDraw == Init /\ [][NextDraw]_vars

----------------------------------------------------------------------------
(* Spec: the check_worker thread step by step, and the UI thread's handlers *)

workerVars == <<pc, online, idx, wait_left>>

\* lines 261-262: sleep(2), then _set_running()
WorkerStart ==
    /\ pc = "start"
    /\ pause_indicator' = "green"
    /\ pc' = "exit_check"
    /\ UNCHANGED <<settingsVars, storeVars, viewVars, stop_event, exit_event, lock, online, idx,
                   wait_left, pending, ui>>

\* Variant of the exit test that is only made while the loop is not paused
\* (used to test the claims)
ExitCheckOnlyWhileRunning ==
    /\ pc = "exit_check"
    /\ pc' = IF exit_event /\ ~stop_event THEN "done" ELSE "stop_check"
    /\ UNCHANGED <<settingsVars, storeVars, viewVars, stop_event, exit_event, pause_indicator, lock,
                   online, idx, wait_left, pending, ui>>

\* lines 265-266
ExitCheck ==
    /\ pc = "exit_check"
    /\ pc' = IF exit_event THEN "done" ELSE "stop_check"
    /\ UNCHANGED <<settingsVars, storeVars, viewVars, stop_event, exit_event, pause_indicator, lock,
                   online, idx, wait_left, pending, ui>>

\* lines 268-269: the flag is read, then _refresh is called
StopCheck ==
    /\ pc = "stop_check"
    /\ pc' = IF stop_event THEN "read_wait" ELSE "refresh"
    /\ UNCHANGED <<settingsVars, storeVars, viewVars, stop_event, exit_event, pause_indicator, lock,
                   online, idx, wait_left, pending, ui>>

\* line 277: _refresh takes check_data_lock (`follow' bounds the cycles the
\* model follows)
RefreshLockAt(follow) ==
    /\ pc = "refresh"
    /\ follow
    /\ lock = "free"
    /\ lock' = "check_worker"
    /\ pc' = "probe"
    /\ UNCHANGED <<settingsVars, storeVars, viewVars, stop_event, exit_event, pause_indicator,
                   online, idx, wait_left, pending, ui>>

RefreshLock == RefreshLockAt(appended < MaxCycles)

\* lines 278-294: the probe, the clock read, the append, merged = [check_data[0]]
ProbeAt(steps) ==
    /\ pc = "probe"
    /\ \E on \in BOOLEAN, d \in steps :
         LET now == clock + d
             cd1 == Append(check_data, Sample(now, on))
         IN  /\ online' = on
             /\ clock' = now
             /\ check_data' = cd1
             /\ merged' = <<cd1[1]>>
    /\ idx' = 2
    /\ appended' = appended + 1
    /\ pc' = "merge"
    /\ UNCHANGED <<settingsVars, disk, loaded, cutoff, data, has_data, head_shared, current_online,
                   restarts, viewVars, stop_event, exit_event, pause_indicator, lock,
                   wait_left, pending, ui>>

Probe == ProbeAt(LoopSteps)

\* lines 295-305: one iteration of the loop over check_data[1:]; merged[0] is
\* check_data[0], and self.data[0] of the previous cycle when head_shared
MergeIter ==
    /\ pc = "merge"
    /\ idx <= Len(check_data)
    /\ LET m == MergeStep(merged, check_data[idx])
       IN  /\ merged' = m
           /\ check_data' = Aliased(check_data, m)
           /\ data' = IF head_shared THEN Aliased(data, m) ELSE data
    /\ idx' = idx + 1
    /\ UNCHANGED <<settingsVars, clock, disk, loaded, cutoff, has_data, head_shared, current_online,
                   appended, restarts, viewVars, stop_event, exit_event,
                   pause_indicator, lock, pc, online, wait_left, pending, ui>>

\* lines 308-317: cutoff, self.data, save; the lock is released
PruneSaveAt(delays) ==
    /\ pc = "merge"
    /\ idx > Len(check_data)
    /\ \E d2 \in delays :
         LET now2 == clock + d2
         IN  /\ clock' = now2
             /\ cutoff' = Cutoff(now2)
             /\ data' = Prune(merged, Cutoff(now2))
             /\ disk' = Prune(merged, Cutoff(now2))
             /\ head_shared' = Keep(merged[1], Cutoff(now2))
    /\ has_data' = TRUE
    /\ lock' = "free"
    /\ pc' = "emit"
    /\ UNCHANGED <<settingsVars, loaded, check_data, merged, current_online, appended, restarts,
                   viewVars, stop_event, exit_event, pause_indicator, online, idx,
                   wait_left, pending, ui>>

PruneSave == PruneSaveAt(PruneDelays)

\* lines 318-319
Emit ==
    /\ pc = "emit"
    /\ current_online' = online
    /\ pending' = pending + 1
    /\ pc' = "read_wait"
    /\ UNCHANGED <<settingsVars, clock, disk, loaded, check_data, merged, cutoff, data, has_data,
                   head_shared, appended, restarts, viewVars, stop_event, exit_event,
                   pause_indicator, lock, online, idx, wait_left, ui>>

\* line 270: wait = int(self.cycle_combo.currentText())
ReadWait ==
    /\ pc = "read_wait"
    /\ \E wait \in CycleChoices : wait_left' = wait
    /\ pc' = "sleep"
    /\ UNCHANGED <<settingsVars, storeVars, viewVars, stop_event, exit_event, pause_indicator, lock,
                   online, idx, pending, ui>>

\* lines 271-274: for _ in range(wait): sleep(1); break when the stop flag is set
SleepTick ==
    /\ pc = "sleep"
    /\ IF wait_left = 0
       THEN /\ pc' = "exit_check"
            /\ wait_left' = 0
       ELSE IF stop_event
            THEN /\ pc' = "exit_check"
                 /\ wait_left' = 0
            ELSE /\ pc' = "sleep"
                 /\ wait_left' = wait_left - 1
    /\ UNCHANGED <<settingsVars, storeVars, viewVars, stop_event, exit_event, pause_indicator, lock,
                   online, idx, pending, ui>>

\* _toggle, lines 251-257 (with _set_running / _set_paused, lines 234-238)
Toggle ==
    /\ ui = "open"
    /\ stop_event' = ~stop_event
    /\ pause_indicator' = IF stop_event THEN "green" ELSE "gold"
    /\ UNCHANGED <<settingsVars, storeVars, viewVars, exit_event, lock, workerVars, pending, ui>>

\* closeEvent, lines 176-182: both events are set, then the joins (2 s each)
CloseBegin ==
    /\ ui = "open"
    /\ stop_event' = TRUE
    /\ exit_event' = TRUE
    /\ ui' = "joining"
    /\ UNCHANGED <<settingsVars, storeVars, viewVars, pause_indicator, lock, workerVars, pending>>

\* closeEvent, lines 184-187, once the workers ended or the joins timed out:
\* the settings are saved; self.data is read without the lock; it does not exist before the first
\* _refresh reached line 313 (AttributeError, lines 185-187 are not executed)
CloseFinish ==
    /\ ui = "joining"
    /\ settings_disk' = "saved"
    /\ IF has_data
       THEN /\ disk' = data
            /\ ui' = "closed"
       ELSE /\ disk' = disk
            /\ ui' = "raised"
    /\ UNCHANGED <<settings_pc, settings_left, clock, loaded, check_data, merged, cutoff, data, has_data,
                   head_shared, current_online, appended, restarts, viewVars,
                   stop_event, exit_event, pause_indicator, lock, workerVars, pending>>

Next ==
    \/ WorkerStart \/ ExitCheck \/ StopCheck \/ RefreshLock \/ Probe \/ MergeIter
    \/ PruneSave \/ Emit \/ ReadWait \/ SleepTick
    \/ Toggle \/ SafeRefresh \/ CloseBegin \/ CloseFinish

Spec == Init /\ [][Next]_vars

----------------------------------------------------------------------------
(* SpecExit: both background threads and the UI thread's handlers, with the
   scheduling of the threads and the timeout of the joins as fairness *)

\* line 161: sleep(2)
SettingsStart ==
    /\ settings_pc = "start"
    /\ settings_pc' = "exit_check"
    /\ UNCHANGED <<storeVars, viewVars, threadVars, settings_left, settings_disk>>

\* lines 164-165
SettingsExitCheck ==
    /\ settings_pc = "exit_check"
    /\ settings_pc' = IF exit_event THEN "done" ELSE "save"
    /\ UNCHANGED <<storeVars, viewVars, threadVars, settings_left, settings_disk>>

\* lines 167-169: _save_current_settings() unless paused, then the for loop
\* starts (the model follows at most MaxSettingsTicks of its iterations)
SettingsSave ==
    /\ settings_pc = "save"
    /\ settings_disk' = IF stop_event THEN settings_disk ELSE "saved"
    /\ settings_left' = IF SETTINGS_SAVE_CYCLE_TIME_s <= MaxSettingsTicks
                        THEN SETTINGS_SAVE_CYCLE_TIME_s ELSE MaxSettingsTicks
    /\ settings_pc' = "sleep"
    /\ UNCHANGED <<storeVars, viewVars, threadVars>>

\* lines 169-172: sleep(1); break when the stop flag is set
SettingsSleepTick ==
    /\ settings_pc = "sleep"
    /\ IF settings_left = 0
       THEN /\ settings_pc' = "exit_check"
            /\ settings_left' = 0
       ELSE IF stop_event
            THEN /\ settings_pc' = "exit_check"
                 /\ settings_left' = 0
            ELSE /\ settings_pc' = "sleep"
                 /\ settings_left' = settings_left - 1
    /\ UNCHANGED <<storeVars, viewVars, threadVars, settings_disk>>

\* _run_check_loop as a thread; the cycle closeEvent finds under way is
\* followed to its end
CheckWorker ==
    \/ WorkerStart \/ ExitCheck \/ StopCheck
    \/ RefreshLockAt(appended < MaxExitCycles \/ exit_event)
    \/ ProbeAt(ExitSteps) \/ MergeIter \/ PruneSaveAt(ExitDelays) \/ Emit
    \/ ReadWait \/ SleepTick

\* _save_settings_loop as a thread
SettingsWorker ==
    SettingsStart \/ SettingsExitCheck \/ SettingsSave \/ SettingsSleepTick

NextExit ==
    \/ CheckWorker \/ SettingsWorker
    \/ Toggle \/ SafeRefresh \/ CloseBegin \/ CloseFinish

SpecExit ==
    /\ Init /\ [][NextExit]_vars
    /\ WF_vars(CheckWorker) /\ WF_vars(SettingsWorker) /\ WF_vars(CloseFinish)

----------------------------------------------------------------------------
(* Claims about the interval store, checked under SpecStore *)

Range(s) == { s[i] : i \in 1..Len(s) }
Duration(entry) == entry.end - entry.start
Mergeable(a, b) == a.status = b.status /\ b.start - a.end <= 35
Retention == 7 * 86400 + 300

\* C1 (as claimed): after a completed probe cycle, self.data and the saved file
\* hold no two adjacent intervals of the same status with a gap of at most 35 s
C1_NoMergeablePairKept ==
    has_data =>
        /\ \A i \in 1..(Len(data) - 1) : ~Mergeable(data[i], data[i + 1])
        /\ \A i \in 1..(Len(disk) - 1) : ~Mergeable(disk[i], disk[i + 1])

\* C2: in self.data and in the saved file every interval has start <= end and
\* consecutive intervals satisfy prev.end <= next.start
Ordered(s) ==
    /\ \A i \in 1..Len(s) : s[i].start <= s[i].end
    /\ \A i \in 1..(Len(s) - 1) : s[i].end <= s[i + 1].start
C2_OrderedNonOverlapping == Ordered(data) /\ Ordered(disk) /\ Ordered(loaded)
C2_Witness ==
    /\ restarts = 1 /\ has_data /\ Len(data) >= 3
    /\ \E i \in 1..Len(data) : data[i].start < data[i].end
    /\ \E i \in 1..(Len(data) - 1) : data[i].end = data[i + 1].start

\* C3: for two consecutive samples of one process, the merge absorbs the second
\* into the current interval (end := the sample's end) exactly when the statuses
\* are equal and the gap is <= 35 s; otherwise it starts a new interval
C3_MergeRule ==
    [][ (appended' = appended + 1 /\ merged # <<>>) =>
          LET seg == Last(check_data')
              cur == Last(merged)
          IN  IF seg.status = cur.status /\ seg.start - cur.end <= 35
              THEN merged' = [merged EXCEPT ![Len(merged)].end = seg.end]
              ELSE merged' = Append(merged, seg) ]_vars
\* same status at t, t+35 and t+75: the gap of 35 merged, the gap of 40 did not
C3_Witness ==
    /\ loaded = <<>> /\ Len(check_data) = 3
    /\ check_data[2].start = check_data[1].start + 35
    /\ check_data[3].start = check_data[2].start + 40
    /\ check_data[2].status = check_data[1].status
    /\ check_data[3].status = check_data[1].status
    /\ merged = << [start |-> check_data[1].start, end |-> check_data[2].start,
                    status |-> check_data[1].status], check_data[3] >>

\* C4: from an empty store, n >= 1 samples of one status, each within 35 s of
\* the one before, then one sample of the other status (at any gap), merge to
\* exactly two intervals: [first, n-th] and the single point
FirstTime == check_data[1].start     \* the first sample of the process is a point
TimeOf(i) == IF i = 1 THEN FirstTime ELSE check_data[i].start
C4_StatusChangeNeverMerges ==
    LET n == Len(check_data) - 1 IN
    ( /\ loaded = <<>> /\ n >= 1 /\ merged # <<>>
      /\ \A i \in 1..n : check_data[i].status = check_data[1].status
      /\ \A i \in 2..n : TimeOf(i) - TimeOf(i - 1) <= 35
      /\ check_data[n + 1].status # check_data[1].status )
    => merged = << [start |-> TimeOf(1), end |-> TimeOf(n),
                    status |-> check_data[1].status],
                   [start |-> TimeOf(n + 1), end |-> TimeOf(n + 1),
                    status |-> check_data[n + 1].status] >>
\* two samples of one status, then the other status at gap 0
C4_Witness ==
    /\ loaded = <<>> /\ Len(check_data) = 3 /\ Len(merged) = 2
    /\ check_data[2].status = check_data[1].status
    /\ check_data[3].status # check_data[1].status
    /\ merged[1].start < merged[1].end
    /\ merged[2].start = merged[1].end

\* C5: merging the output of a merge again gives the identical sequence
C5_MergeIdempotent == merged # <<>> => MergeAll(merged) = merged
C5_Witness ==
    /\ Len(merged) >= 3
    /\ \E i \in 2..Len(merged) : merged[i].start < merged[i].end
    /\ \E i \in 1..(Len(merged) - 1) : merged[i].status = merged[i + 1].status

\* C6: with cutoff = now - (7 days + 300 s), prune keeps exactly the intervals
\* with end > cutoff or end - start > 300 s, unchanged and in their order
KeptIndexes ==
    { i \in 1..Len(merged) :
        merged[i].end > cutoff \/ merged[i].end - merged[i].start > 300 }
C6_PruneRule ==
    has_data =>
        /\ cutoff = clock - Retention
        /\ Len(data) = Cardinality(KeptIndexes)
        /\ \A i \in KeptIndexes :
             data[Cardinality({ k \in KeptIndexes : k <= i })] = merged[i]
\* a 400 s interval that started 10 days ago is kept, a 10 s one is dropped
C6_Witness ==
    /\ has_data
    /\ \E e \in Range(merged) :
         Duration(e) = 400 /\ clock - e.start >= 864000 /\ e \in Range(data)
    /\ \E e \in Range(merged) :
         Duration(e) = 10 /\ clock - e.start >= 864000 /\ e \notin Range(data)

\* C7 (as claimed): every interval of at least 300 s is kept by prune
C7_AtLeast300Kept ==
    has_data => \A e \in Range(merged) : Duration(e) >= 300 => e \in Range(data)
\* C7 (amended): every interval of more than 300 s is kept by prune, also
\* when its end is at or before the cutoff
C7_LongerThan300Kept ==
    has_data => \A e \in Range(merged) : Duration(e) > 300 => e \in Range(data)
C7_Witness ==
    /\ has_data
    /\ \E e \in Range(merged) :
         Duration(e) > 300 /\ e.end <= cutoff /\ e \in Range(data)

----------------------------------------------------------------------------
(* Claims about pause and shutdown, checked under Spec *)

\* C8 (as claimed): while the loop is paused (the stop flag set by the toggle,
\* the window open) no step appends a sample or changes self.check_data,
\* self.data or the saved file
C8_PausedStoreFrozen ==
    [][ (stop_event /\ ui = "open") =>
          (check_data' = check_data /\ data' = data /\ disk' = disk) ]_vars

\* C9 (as claimed): closeEvent always reaches the final save of self.data and
\* event.accept(); it never ends by raising
C9_CloseSavesAndAccepts == ui # "raised"

----------------------------------------------------------------------------
(* Claims about the redraw, checked under SpecView *)

DrawnIndexes(old) == { i \in 1..Len(data) : ~(data[i].end < old) }

Samples ==
    { <<loaded[i].start, loaded[i].status>> : i \in 1..Len(loaded) }
    \cup { <<loaded[i].end, loaded[i].status>> : i \in 1..Len(loaded) }
    \cup { <<check_data[i].start, check_data[i].status>> :
              i \in (Len(loaded) + 1)..Len(check_data) }
Covering(sp, t) == { j \in 1..Len(sp) : sp[j].start <= t /\ t <= sp[j].end }
InWindow(t, old, now) == old <= t /\ t <= now

\* C11 (as claimed): after a redraw, every sample timestamp t in [oldest, now]
\* is covered by exactly one drawn interval, and it has the sample's status
C11_ExactlyOneCovering ==
    [][ (pending' = pending - 1) =>
          \A smp \in Samples : InWindow(smp[1], oldest', drawn_now') =>
              /\ Cardinality(Covering(spans', smp[1])) = 1
              /\ \A j \in Covering(spans', smp[1]) : spans'[j].status = smp[2] ]_vars
\* C11 (amended): after a redraw, every sample timestamp t in [oldest, now] is
\* covered by a drawn interval of the sample's status; every drawn interval
\* covering t has the status of a sample recorded at t; and when all samples
\* recorded at t have one status, exactly one drawn interval covers t
C11_Coverage ==
    [][ (pending' = pending - 1) =>
          \A smp \in Samples : InWindow(smp[1], oldest', drawn_now') =>
              /\ \E j \in Covering(spans', smp[1]) : spans'[j].status = smp[2]
              /\ \A j \in Covering(spans', smp[1]) :
                     <<smp[1], spans'[j].status>> \in Samples
              /\ (\A other \in Samples : other[1] = smp[1] => other[2] = smp[2])
                     => Cardinality(Covering(spans', smp[1])) = 1 ]_vars
\* a redraw with the 7 d lookback after a prune dropped old intervals, with a
\* sample exactly at `oldest' of a 1 m redraw being its own case below
C11_Witness ==
    /\ has_data /\ clock = drawn_now /\ pending = 0
    /\ Len(data) < Len(merged)
    /\ oldest = drawn_now - 604800
    /\ \E smp \in Samples : InWindow(smp[1], oldest, drawn_now)
    /\ \E smp \in Samples : smp[1] < oldest


----------------------------------------------------------------------------
(* Claims about locking, checked under Spec *)

\* C12 (as claimed): the shutdown flush of closeEvent reads self.data under
\* check_data_lock like the redraw and the probe cycle do: it never runs while
\* the worker holds the lock, so what it saves is the sequence the last
\* completed cycle saved, never a partially merged one
C12_FlushUnderLock ==
    [][ (ui = "joining" /\ ui' = "closed") =>
          (lock = "free" /\ disk' = disk) ]_vars


\* C13 (as claimed), checked under SpecDraw: the redraw draws no span while it
\* holds check_data_lock; the spans are drawn after the lock was released
C13_NoDrawingUnderLock ==
    [][ Len(spans') > Len(spans) => lock # "ui" ]_vars


----------------------------------------------------------------------------
(* Claims about samples out of time order, checked under SpecSkew (no interval
   is old enough to be pruned there) *)

\* C14 (as claimed): a sample whose timestamp is earlier than the end of the
\* last stored interval is not absorbed: the stored sequence keeps every
\* interval as it was (no start or end changes, no end < start) and gets no
\* interval appended out of order
C14_EarlierSampleRejected ==
    [][ ( /\ appended' = appended + 1
          /\ disk # <<>>
          /\ Last(check_data').start < Last(disk).end )
        => disk' = disk ]_vars


----------------------------------------------------------------------------
(* Claims about shutdown, checked under SpecExit *)

\* C15: once closeEvent has set the stop and the exit signal, the probe loop and
\* the settings-save loop both end, wherever they were; and closeEvent itself
\* returns, with or without the loops having ended
C15_LoopsExit ==
    /\ exit_event ~> (pc = "done" /\ settings_pc = "done")
    /\ (ui = "joining") ~> (ui \in {"closed", "raised"})
\* closeEvent found a probe cycle under way, returned, and both loops ended
C15_Witness ==
    /\ ui = "closed" /\ pc = "done" /\ settings_pc = "done"
    /\ appended = MaxExitCycles + 1


----------------------------------------------------------------------------
(* Claims about the in-memory list and restarts, checked under SpecStore *)

\* the i-th entry of cd has the status of the entry before it and starts
\* within 35 s of that entry's end
ContinuesRun(cd, i) ==
    cd[i].status = cd[i - 1].status /\ cd[i].start - cd[i - 1].end <= 35

\* C16 (as claimed): a sample that continues a run (same status as the last
\* interval, within 35 s of its end), after a sample that continued it too,
\* leaves the list the next cycle starts from (self.check_data) at the length
\* it had
C16_NoGrowthWithinRun ==
    [][ ( /\ appended' = appended + 1
          /\ Len(check_data) >= 2
          /\ ContinuesRun(check_data, Len(check_data))
          /\ ContinuesRun(check_data', Len(check_data')) )
        => Len(check_data') = Len(check_data) ]_vars


----------------------------------------------------------------------------
(* Claims about failed saves, checked under SpecSave *)

\* C17 (as claimed): whatever happens to the save of a probe cycle, the cycle
\* ends with self.data holding its result, and the file holds either that
\* result (the save succeeded: the whole current sequence) or what the last
\* successful save wrote: only the cycles since then are missing from disk
C17_FailedSaveLosesOnlyRecentCycles ==
    [][ appended' = appended + 1 =>
          /\ has_data' /\ data' = Prune(merged', cutoff')
          /\ disk' = data' \/ disk' = disk ]_vars


----------------------------------------------------------------------------
(* Claims about restarts, checked under SpecStore *)

\* C18 (as claimed): when the process is restarted after a completed cycle, the
\* next probe cycle gives the same stored sequence (self.data, the file)
\* as it would have given had the process gone on with its list in memory
C18_RestartTransparent ==
    [][ restarts' = restarts + 1 =>
          \A on \in BOOLEAN, d \in Steps, d2 \in PruneDelays :
              RefreshResult(check_data', on, clock + d, clock + d + d2).data
                = RefreshResult(check_data, on, clock + d, clock + d + d2).data ]_vars


----------------------------------------------------------------------------
(* Claims about the pause indicator, checked under Spec *)

\* C19 (as claimed): while the window is open, between the handlers of the UI
\* thread, the pause indicator is green exactly when the stop flag is clear
\* and gold exactly when it is set
C19_IndicatorMatchesFlag ==
    ui = "open" =>
        /\ pause_indicator = "green" <=> ~stop_event
        /\ pause_indicator = "gold" <=> stop_event


----------------------------------------------------------------------------
(* Claims about the effect of one cycle on the saved sequence, checked under
   SpecStore *)

\* `new' is `old' changed at its ends only: the intervals of `old' before its
\* last are there unchanged and in order, except those that the prune at
\* `cut' removes (end <= cut and at most 300 s long); then comes the last
\* interval of `old' with its start and status and an end not earlier than
\* before, or nothing when last_may_go and the prune removes it; then at
\* most one more interval
TailOnly(old, new, cut, last_may_go) ==
    LET n == Len(old)
        Kept(e) == e.end > cut \/ e.end - e.start > 300
        head == SelectSeq(SubSeq(old, 1, n - 1), Kept)
        k == Len(head)
        rest == SubSeq(new, k + 1, Len(new))
    IN  /\ Len(new) >= k
        /\ SubSeq(new, 1, k) = head
        /\ \/ /\ Len(rest) \in {1, 2}
              /\ rest[1].start = old[n].start
              /\ rest[1].status = old[n].status
              /\ rest[1].end >= old[n].end
           \/ /\ last_may_go
              /\ ~Kept(old[n])
              /\ Len(rest) = 1
              /\ rest[1].start >= old[n].end

\* C20 (as claimed): a probe cycle changes the sequence saved by the cycle
\* before it (same process) at its ends only, and the last interval stays
C20_TailOnlyLastStays ==
    [][ (appended' = appended + 1 /\ has_data) =>
          TailOnly(disk, disk', cutoff', FALSE) ]_vars
\* C20 (amended): the same, except that the last interval, too, is removed by
\* the prune when the new sample did not extend it and it ends at or before
\* the cutoff and is at most 300 s long
C20_TailOnly ==
    [][ (appended' = appended + 1 /\ has_data) =>
          TailOnly(disk, disk', cutoff', TRUE) ]_vars
\* a second cycle of a process that pruned the interval that was last before
C20_Witness ==
    /\ has_data /\ appended >= 2 /\ restarts = 0
    /\ Len(merged) >= 3
    /\ merged[Len(merged) - 1] \notin Range(data)
    /\ merged[Len(merged) - 1].start < merged[Len(merged) - 1].end

====
